---- MODULE Spec2Model ----
(***************************************************************************)
(* Model of src/store/momento.rs: `launch_tasks`, the worker loop `task`,   *)
(* the timed dispatch functions `store_get`, `put`, `store_delete`, and    *)
(* the metrics they drive.  Workers run in parallel on the runtime, so     *)
(* every counter increment (an atomic fetch-add) is one step of the model, *)
(* and the two suspension points (the receive from the channel, the race   *)
(* of the backend call against the timer) are steps of their own.          *)
(*                                                                         *)
(* LaunchSpec follows launch_tasks and the start of every task it spawns   *)
(* up to the head of the task's loop; Spec and FairSpec follow the loops   *)
(* of the tasks of one connection from there.                              *)
(***************************************************************************)
EXTENDS Integers, Sequences, FiniteSets, TLC

\* ---------------------------------------------------------------- bounds
\* Number of worker tasks receiving from the one shared channel.
NumWorkers == 2
\* Number of work items the producers send during a run.
MaxItems == 2
\* Number of work items the producers send in the runs checked for liveness.
MaxItemsLive == 1
\* Largest config.storage().poolsize() of a launch.
MaxPoolsize == 2
\* Largest config.storage().concurrency() of a launch.
MaxConcurrency == 3
\* config.storage().unwrap().request_timeout(): the same duration for get,
\* put and delete.
RequestTimeout == 1

\* The latencies of a backend call that the race with the timer tells apart:
\* below, at and above the timeout.
Latencies == {RequestTimeout - 1, RequestTimeout, RequestTimeout + 1}

Workers == 1..NumWorkers

\* The tasks a launch can spawn, in the order launch_tasks spawns them.
Tasks == 1..(MaxPoolsize * MaxConcurrency)

\* The values rand::thread_rng().sample_iter(&Alphanumeric).take(7) can
\* collect to: two of them tell an equal draw from a different one.
Salts == {"aaaaaaa", "bbbbbbb"}

\* store_config.store_name(): Some(name) or None.
StoreNames == {"store", "none"}

\* The state of the environment variable MOMENTO_API_KEY.
ApiKeys == {"unset", "invalid", "valid"}

\* ------------------------------------------------------------ data model
\* ClientWorkItemKind<StoreClientRequest>: Request{Get|Put|Delete|other} or
\* Reconnect.
WorkItems == {"Get", "Put", "Delete", "Other", "Reconnect"}

\* What client.get resolves to: Ok(GetResponse) or Err(MomentoError).
BackendErrors == {"UnknownError", "LimitExceededError", "TimeoutError"}
GetResponses == {"Found", "NotFound"} \cup BackendErrors
\* What client.send_request(PutRequest) and client.delete resolve to.
AckResponses == {"Ack"} \cup BackendErrors

\* The process-wide counters the file increments, the gauge CONNECT_CURR and
\* the one histogram (RESPONSE_LATENCY, modelled by its number of samples).
CounterNames ==
    {"CONNECT", "CONNECT_CURR",
     "REQUEST", "REQUEST_OK", "REQUEST_UNSUPPORTED",
     "RESPONSE_OK", "RESPONSE_EX", "RESPONSE_TIMEOUT",
     "RESPONSE_RATELIMITED", "RESPONSE_BACKEND_TIMEOUT",
     "RESPONSE_LATENCY", "RESPONSE_HIT", "RESPONSE_MISS",
     "GET", "GET_OK", "GET_EX", "GET_TIMEOUT", "GET_KEY_HIT", "GET_KEY_MISS",
     "SET", "SET_STORED", "SET_EX", "SET_TIMEOUT",
     "DELETE", "DELETE_OK", "DELETE_EX", "DELETE_TIMEOUT"}

\* The five counters of the match on `result` in task.
ResponseCounters ==
    {"RESPONSE_OK", "RESPONSE_EX", "RESPONSE_TIMEOUT",
     "RESPONSE_RATELIMITED", "RESPONSE_BACKEND_TIMEOUT"}

VARIABLES
    RUNNING,    \* the process-wide AtomicBool
    queue,      \* the work items in the channel, oldest first
    closed,     \* TRUE once every sender of the channel is dropped
    limit,      \* how many items the producers will still send
    pc,         \* pc[w]: where worker w is in task
    item,       \* item[w]: the work item w received and has not matched yet
    call,       \* call[w]: what the backend call w awaits will answer
    lat,        \* lat[w]: how long the call w awaited took
    res,        \* res[w]: what timeout(..).await returned to w
    result,     \* result[w]: the Result<(), ResponseError> of the dispatch
    dispatched, \* dispatched[w]: w called store_get, put or store_delete in
                \* this iteration
    nresp,      \* nresp[w]: RESPONSE_* increments of w in this iteration
    abandoned,  \* backend calls dropped by a timeout and not yet finished
    metrics,    \* the counters
    sent,       \* sent[k]: how many work items of kind k the producers sent
    config,     \* config.storage(): poolsize, concurrency, store_name
    apiKey,     \* the environment variable MOMENTO_API_KEY
    lpc,        \* where launch_tasks is
    pool,       \* iterations of the poolsize loop completed
    njobs,      \* tasks spawned in the current iteration of the poolsize loop
    args,       \* args[t]: the client and the receiver task t was spawned with
    store_name, \* store_name[t]: the local `store_name` of task t
    exited      \* TRUE once std::process::exit(1) was called

vars == <<RUNNING, queue, closed, limit, pc, item, call, lat, res, result,
          dispatched, nresp, abandoned, metrics, sent, config, apiKey, lpc,
          pool, njobs, args, store_name, exited>>

\* The channel and the flag, which a worker changes only by receiving.
chan == <<RUNNING, queue, closed, limit, sent>>

\* What launch_tasks and the start of a task set up; the loop of a task
\* changes none of it.
boot == <<config, apiKey, lpc, pool, njobs, args, store_name, exited>>

\* What a worker holds of the call it dispatched.
held == <<call, lat, res>>

\* counter.increment()
Inc(m, k) == [m EXCEPT ![k] = @ + 1]

\* tokio::time::timeout(duration, future).await for a future that completes
\* after `l` with `resp`: what the await can return.  Every poll looks at the
\* future first and at the deadline only when the future is still pending.
\* A future that completes before the deadline is found complete by the poll
\* that follows, however late.  A future that completes at or after the
\* deadline is found complete too when the task is polled only then, and
\* loses to the deadline (Err(Elapsed), the future is dropped) when the task
\* is polled in between.
Timeout(duration, l, resp) ==
    IF l < duration THEN {resp} ELSE {resp, "Elapsed"}

\* impl From<MomentoError> for ResponseError (e.into()).
ResponseErrorFrom(e) ==
    CASE e = "LimitExceededError" -> "Ratelimited"
      [] e = "TimeoutError" -> "BackendTimeout"
      [] OTHER -> "Exception"

\* ------------------------------------------------------------------ Init
\* The loops are followed from the state in which launch_tasks has returned
\* from a launch with one connection and NumWorkers tasks on it, and every
\* task has reached the head of its loop; the producers will send n items.
InitWith(n) ==
    /\ RUNNING = TRUE
    /\ queue = <<>>
    /\ closed = FALSE
    /\ limit = n
    /\ pc = [w \in Workers |-> "loop"]
    /\ item = [w \in Workers |-> "none"]
    /\ call = [w \in Workers |-> "none"]
    /\ lat = [w \in Workers |-> 0]
    /\ res = [w \in Workers |-> "none"]
    /\ result = [w \in Workers |-> "none"]
    /\ dispatched = [w \in Workers |-> FALSE]
    /\ nresp = [w \in Workers |-> 0]
    /\ abandoned = 0
    /\ metrics = [k \in CounterNames |->
                     IF k \in {"CONNECT", "CONNECT_CURR"} THEN 1 ELSE 0]
    /\ sent = [k \in WorkItems |-> 0]
    /\ config = [poolsize |-> 1, concurrency |-> NumWorkers,
                 store_name |-> "store"]
    /\ apiKey = "valid"
    /\ lpc = "returned"
    /\ pool = 1
    /\ njobs = NumWorkers
    /\ args = [w \in Workers |->
                   [client |-> 1, work_receiver |-> "work_receiver"]]
    /\ store_name \in [Workers -> {<<s, "-", "store">> : s \in Salts}]
    /\ exited = FALSE

Init == InitWith(MaxItems)

\* ----------------------------------------------------------- environment
\* A producer sends a work item on the channel.
Produce ==
    /\ ~closed
    /\ limit > 0
    /\ \E k \in WorkItems :
          /\ queue' = Append(queue, k)
          /\ sent' = [sent EXCEPT ![k] = @ + 1]
    /\ limit' = limit - 1
    /\ UNCHANGED <<RUNNING, closed, pc, item, held, result, dispatched, nresp,
                   abandoned, metrics, boot>>

\* The last sender is dropped: the channel is closed.
CloseQueue ==
    /\ ~closed
    /\ closed' = TRUE
    /\ UNCHANGED <<RUNNING, queue, limit, sent, pc, item, held, result,
                   dispatched, nresp, abandoned, metrics, boot>>

\* The shutdown trigger stores false in RUNNING.
Shutdown ==
    /\ RUNNING
    /\ RUNNING' = FALSE
    /\ UNCHANGED <<queue, closed, limit, sent, pc, item, held, result,
                   dispatched, nresp, abandoned, metrics, boot>>

\* A faulty variant of AbandonedReturn: the dropped call still delivers its
\* result, which is counted as a successful Get.
AbandonedReturnRecorded ==
    /\ abandoned > 0
    /\ abandoned' = abandoned - 1
    /\ metrics' = Inc(metrics, "GET_OK")
    /\ UNCHANGED <<chan, pc, item, held, result, dispatched, nresp, boot>>

\* A backend call whose future the timeout dropped finishes on the
\* connection, with whatever answer: nobody awaits it, nothing in the
\* process changes.
AbandonedReturn ==
    /\ abandoned > 0
    /\ abandoned' = abandoned - 1
    /\ UNCHANGED <<chan, pc, item, held, result, dispatched, nresp, metrics,
                   boot>>

\* nresp[w] counts the increments of the five RESPONSE_* outcome counters that
\* worker w makes in one iteration of the loop: every step of w adds what the
\* step added to them, and the count starts again from 0 at the head of the
\* loop.
RECURSIVE SumOver(_, _)
SumOver(m, ks) ==
    IF ks = {} THEN 0
    ELSE LET k == CHOOSE x \in ks : TRUE IN m[k] + SumOver(m, ks \ {k})

Tally(w) ==
    [nresp EXCEPT ![w] =
        IF pc[w] = "loop" THEN 0
        ELSE @ + SumOver(metrics', ResponseCounters)
               - SumOver(metrics, ResponseCounters)]

\* ---------------------------------------------------------- launch_tasks
\* The state in which launch_tasks is called: no client built, no task
\* spawned, every counter at 0.  The configuration and the environment are
\* inputs of the launch.
LaunchInit ==
    /\ RUNNING = TRUE
    /\ queue = <<>>
    /\ closed = FALSE
    /\ limit = 0
    /\ pc = [t \in Tasks |-> "unspawned"]
    /\ item = [t \in Tasks |-> "none"]
    /\ call = [t \in Tasks |-> "none"]
    /\ lat = [t \in Tasks |-> 0]
    /\ res = [t \in Tasks |-> "none"]
    /\ result = [t \in Tasks |-> "none"]
    /\ dispatched = [t \in Tasks |-> FALSE]
    /\ nresp = [t \in Tasks |-> 0]
    /\ abandoned = 0
    /\ metrics = [k \in CounterNames |-> 0]
    /\ sent = [k \in WorkItems |-> 0]
    /\ config \in [poolsize : 1..MaxPoolsize, concurrency : 1..MaxConcurrency,
                   store_name : StoreNames]
    /\ apiKey \in ApiKeys
    /\ lpc = "pool"
    /\ pool = 0
    /\ njobs = 0
    /\ args = [t \in Tasks |-> "none"]
    /\ store_name = [t \in Tasks |-> "none"]
    /\ exited = FALSE

\* What launch_tasks leaves alone: the channel, and what the loops hold.
loops == <<chan, item, held, result, dispatched, nresp, abandoned>>

\* A faulty variant of Exit: only launch_tasks stops, the process and the
\* tasks already spawned live on.
ExitLaunchOnly ==
    /\ exited' = exited
    /\ lpc' = "exit"

\* eprintln!(..); std::process::exit(1): the process ends where it is.
Exit ==
    /\ exited' = TRUE
    /\ lpc' = "exit"

\* for _ in 0..poolsize: another iteration starts with the check of the
\* environment variable; without the variable the process exits.
EnvVar ==
    /\ ~exited
    /\ lpc = "pool"
    /\ pool < config.poolsize
    /\ IF apiKey = "unset"
       THEN Exit
       ELSE lpc' = "credential" /\ UNCHANGED exited
    /\ UNCHANGED <<loops, pc, metrics, config, apiKey, pool, njobs, args,
                   store_name>>

\* CredentialProvider::from_env_var: Ok(v), or Err(e) and the process exits.
Credential ==
    /\ ~exited
    /\ lpc = "credential"
    /\ IF apiKey = "invalid"
       THEN Exit
       ELSE lpc' = "build" /\ UNCHANGED exited
    /\ UNCHANGED <<loops, pc, metrics, config, apiKey, pool, njobs, args,
                   store_name>>

\* PreviewStorageClient::builder()...build(): Ok(c), or Err(e) and the
\* process exits.
Build ==
    /\ ~exited
    /\ lpc = "build"
    /\ \E ok \in BOOLEAN :
          IF ok THEN lpc' = "connect" /\ UNCHANGED exited ELSE Exit
    /\ UNCHANGED <<loops, pc, metrics, config, apiKey, pool, njobs, args,
                   store_name>>

\* CONNECT.increment();
CountConnect ==
    /\ ~exited
    /\ lpc = "connect"
    /\ metrics' = Inc(metrics, "CONNECT")
    /\ lpc' = "connect_curr"
    /\ UNCHANGED <<loops, pc, config, apiKey, pool, njobs, args, store_name,
                   exited>>

\* CONNECT_CURR.increment(); then the concurrency loop starts.
CountConnectCurr ==
    /\ ~exited
    /\ lpc = "connect_curr"
    /\ metrics' = Inc(metrics, "CONNECT_CURR")
    /\ njobs' = 0
    /\ lpc' = "spawn"
    /\ UNCHANGED <<loops, pc, config, apiKey, pool, args, store_name, exited>>

\* The task the next runtime.spawn creates.
NextTask == pool * config.concurrency + njobs + 1

\* A faulty variant of Spawn: every task gets a client of its own instead of a
\* clone of the client of the iteration.
SpawnOwnClient ==
    /\ ~exited
    /\ lpc = "spawn"
    /\ njobs < config.concurrency
    /\ pc' = [pc EXCEPT ![NextTask] = "start"]
    /\ args' = [args EXCEPT ![NextTask] =
                   [client |-> NextTask, work_receiver |-> "work_receiver"]]
    /\ njobs' = njobs + 1
    /\ UNCHANGED <<loops, metrics, config, apiKey, lpc, pool, store_name,
                   exited>>

\* for _ in 0..concurrency:
\*     runtime.spawn(task(config.clone(), client.clone(), work_receiver.clone()))
Spawn ==
    /\ ~exited
    /\ lpc = "spawn"
    /\ njobs < config.concurrency
    /\ pc' = [pc EXCEPT ![NextTask] = "start"]
    /\ args' = [args EXCEPT ![NextTask] =
                   [client |-> pool + 1, work_receiver |-> "work_receiver"]]
    /\ njobs' = njobs + 1
    /\ UNCHANGED <<loops, metrics, config, apiKey, lpc, pool, store_name,
                   exited>>

\* The concurrency loop is over: the iteration of the poolsize loop ends.
SpawnDone ==
    /\ ~exited
    /\ lpc = "spawn"
    /\ njobs = config.concurrency
    /\ pool' = pool + 1
    /\ lpc' = "pool"
    /\ UNCHANGED <<loops, pc, metrics, config, apiKey, njobs, args, store_name,
                   exited>>

\* The poolsize loop is over: launch_tasks returns.
LaunchReturn ==
    /\ ~exited
    /\ lpc = "pool"
    /\ pool = config.poolsize
    /\ lpc' = "returned"
    /\ UNCHANGED <<loops, pc, metrics, config, apiKey, pool, njobs, args,
                   store_name, exited>>

\* ----------------------------------------------------------- task (start)
\* store_name.insert_str(0, &format!("{}-", unique_store))
SaltedName(salt, name) == <<salt, "-", name>>

\* The start of task, up to the head of the loop: the task draws its
\* unique_store and prefixes the configured store name with it.
TaskStart(t) ==
    /\ ~exited
    /\ pc[t] = "start"
    /\ config.store_name # "none"
    /\ \E salt \in Salts :
          store_name' = [store_name EXCEPT ![t] =
                            SaltedName(salt, config.store_name)]
    /\ pc' = [pc EXCEPT ![t] = "loop"]
    /\ UNCHANGED <<loops, metrics, config, apiKey, lpc, pool, njobs, args,
                   exited>>

\* store_config.store_name() is None: the task prints a diagnostic and the
\* process exits, wherever launch_tasks is.
TaskStartExit(t) ==
    /\ ~exited
    /\ pc[t] = "start"
    /\ config.store_name = "none"
    /\ exited' = TRUE
    /\ UNCHANGED <<loops, pc, metrics, config, apiKey, lpc, pool, njobs, args,
                   store_name>>

LaunchTasks ==
    \/ EnvVar
    \/ Credential
    \/ Build
    \/ CountConnect
    \/ CountConnectCurr
    \/ Spawn
    \/ SpawnDone
    \/ LaunchReturn

LaunchNext ==
    \/ LaunchTasks
    \/ \E t \in Tasks : TaskStart(t)
    \/ \E t \in Tasks : TaskStartExit(t)

LaunchSpec == LaunchInit /\ [][LaunchNext]_vars

\* ------------------------------------------------------------ task (loop)
\* while RUNNING.load(Ordering::Relaxed) { ... } Ok(())
CheckRunning(w) ==
    /\ pc[w] = "loop"
    /\ pc' = [pc EXCEPT ![w] = IF RUNNING THEN "recv" ELSE "done"]
    /\ dispatched' = [dispatched EXCEPT ![w] = FALSE]
    /\ UNCHANGED <<chan, item, held, result, abandoned, metrics>>
    /\ nresp' = Tally(w)
    /\ UNCHANGED boot

\* A faulty variant of Recv: the receive hands out the oldest item and leaves
\* it in the channel, as a broadcast would.
RecvLeavesItem(w) ==
    /\ pc[w] = "recv"
    /\ queue # <<>>
    /\ item' = [item EXCEPT ![w] = Head(queue)]
    /\ pc' = [pc EXCEPT ![w] = "request"]
    /\ UNCHANGED <<chan, held, result, dispatched, abandoned, metrics>>
    /\ nresp' = Tally(w)
    /\ UNCHANGED boot

\* work_receiver.recv().await returns Ok(work_item): the oldest item leaves
\* the channel and goes to this one receiver.
Recv(w) ==
    /\ pc[w] = "recv"
    /\ queue # <<>>
    /\ item' = [item EXCEPT ![w] = Head(queue)]
    /\ queue' = Tail(queue)
    /\ pc' = [pc EXCEPT ![w] = "request"]
    /\ UNCHANGED <<RUNNING, closed, limit, sent, held, result, dispatched,
                   abandoned, metrics>>
    /\ nresp' = Tally(w)
    /\ UNCHANGED boot

\* A faulty variant of RecvClosed: the error of the receive is swallowed and
\* the loop tries again.
RecvClosedRetry(w) ==
    /\ pc[w] = "recv"
    /\ queue = <<>>
    /\ closed
    /\ pc' = [pc EXCEPT ![w] = "loop"]
    /\ UNCHANGED <<chan, item, held, result, dispatched, abandoned, metrics>>
    /\ nresp' = Tally(w)
    /\ UNCHANGED boot

\* work_receiver.recv().await returns Err: the channel is closed and empty;
\* `?` returns Err("channel closed") from task.
RecvClosed(w) ==
    /\ pc[w] = "recv"
    /\ queue = <<>>
    /\ closed
    /\ pc' = [pc EXCEPT ![w] = "failed"]
    /\ UNCHANGED <<chan, item, held, result, dispatched, abandoned, metrics>>
    /\ nresp' = Tally(w)
    /\ UNCHANGED boot

\* A faulty variant of Dispatch: a Reconnect falls in with the requests that
\* are skipped as unsupported.
DispatchReconnectUnsupported(k) ==
    CASE k = "Get" -> "store_get"
      [] k = "Put" -> "put"
      [] k = "Delete" -> "store_delete"
      [] OTHER -> "unsupported"

\* The arm of `match work_item` the received item selects.
Dispatch(k) ==
    CASE k = "Get" -> "store_get"
      [] k = "Put" -> "put"
      [] k = "Delete" -> "store_delete"
      [] k = "Other" -> "unsupported"
      [] OTHER -> "loop"

\* REQUEST.increment(); then the match on the work item, which consumes it.
CountRequest(w) ==
    /\ pc[w] = "request"
    /\ metrics' = Inc(metrics, "REQUEST")
    /\ pc' = [pc EXCEPT ![w] = Dispatch(item[w])]
    /\ dispatched' = [dispatched EXCEPT ![w] =
                         pc'[w] \in {"store_get", "put", "store_delete"}]
    /\ item' = [item EXCEPT ![w] = "none"]
    /\ UNCHANGED <<chan, held, result, abandoned>>
    /\ nresp' = Tally(w)
    /\ UNCHANGED boot

\* A faulty variant of Unsupported: the skipped request is counted as a
\* completed one too.
UnsupportedCountsOk(w) ==
    /\ pc[w] = "unsupported"
    /\ metrics' = Inc(Inc(metrics, "REQUEST_UNSUPPORTED"), "REQUEST_OK")
    /\ pc' = [pc EXCEPT ![w] = "loop"]
    /\ UNCHANGED <<chan, item, held, result, dispatched, abandoned>>
    /\ nresp' = Tally(w)
    /\ UNCHANGED boot

\* REQUEST_UNSUPPORTED.increment(); continue;
Unsupported(w) ==
    /\ pc[w] = "unsupported"
    /\ metrics' = Inc(metrics, "REQUEST_UNSUPPORTED")
    /\ pc' = [pc EXCEPT ![w] = "loop"]
    /\ UNCHANGED <<chan, item, held, result, dispatched, abandoned>>
    /\ nresp' = Tally(w)
    /\ UNCHANGED boot

\* ------------------------------------------------------------- store_get
\* A faulty variant of StoreGetBegin: the call is issued without counting the
\* attempt.
StoreGetBeginUncounted(w) ==
    /\ pc[w] = "store_get"
    /\ \E resp \in GetResponses : call' = [call EXCEPT ![w] = resp]
    /\ pc' = [pc EXCEPT ![w] = "get_await"]
    /\ UNCHANGED <<chan, item, lat, res, result, dispatched, abandoned, metrics>>
    /\ nresp' = Tally(w)
    /\ UNCHANGED boot

\* GET.increment(); then the call client.get(store_name, key) is issued
\* inside timeout(request_timeout, ..): the backend will answer `resp`.
StoreGetBegin(w) ==
    /\ pc[w] = "store_get"
    /\ metrics' = Inc(metrics, "GET")
    /\ \E resp \in GetResponses : call' = [call EXCEPT ![w] = resp]
    /\ pc' = [pc EXCEPT ![w] = "get_await"]
    /\ UNCHANGED <<chan, item, lat, res, result, dispatched, abandoned>>
    /\ nresp' = Tally(w)
    /\ UNCHANGED boot

\* timeout(..).await resolves after the call took some time l: to the
\* backend's answer, or to Elapsed, in which case the call is dropped while
\* still in flight or with its answer unread.
StoreGetAwait(w) ==
    /\ pc[w] = "get_await"
    /\ \E l \in Latencies :
          /\ lat' = [lat EXCEPT ![w] = l]
          /\ \E r \in Timeout(RequestTimeout, l, call[w]) :
                res' = [res EXCEPT ![w] = r]
    /\ abandoned' = IF res'[w] = "Elapsed" THEN abandoned + 1 ELSE abandoned
    /\ call' = [call EXCEPT ![w] = "none"]
    /\ pc' = [pc EXCEPT ![w] = "get_match"]
    /\ UNCHANGED <<chan, item, result, dispatched, metrics>>
    /\ nresp' = Tally(w)
    /\ UNCHANGED boot

\* A faulty variant of GetArmCounter: the timeout arm increments the
\* attempted counter.
GetArmCounterTimeoutAsAttempt(r) ==
    CASE r \in {"Found", "NotFound"} -> "GET_OK"
      [] r = "Elapsed" -> "GET"
      [] OTHER -> "GET_EX"

\* A faulty variant of GetArmCounter: the NotFound arm counts an exception
\* instead of a success.
GetArmCounterMissAsException(r) ==
    CASE r = "Found" -> "GET_OK"
      [] r = "Elapsed" -> "GET_TIMEOUT"
      [] OTHER -> "GET_EX"

\* The first counter each arm of the match in store_get increments.
GetArmCounter(r) ==
    CASE r \in {"Found", "NotFound"} -> "GET_OK"
      [] r = "Elapsed" -> "GET_TIMEOUT"
      [] OTHER -> "GET_EX"

\* A faulty variant of GetArmResult: the timeout arm returns the generic
\* exception.
GetArmResultTimeoutAsException(r) ==
    CASE r \in {"Found", "NotFound"} -> "Ok"
      [] r = "Elapsed" -> "Exception"
      [] OTHER -> ResponseErrorFrom(r)

\* The value an arm of the match in store_get returns.
GetArmResult(r) ==
    CASE r \in {"Found", "NotFound"} -> "Ok"
      [] r = "Elapsed" -> "Timeout"
      [] OTHER -> ResponseErrorFrom(r)

\* match timeout(..).await { .. }: the first increment of the arm taken.
\* The Found and NotFound arms go on to two more increments; the error and
\* timeout arms return.
StoreGetMatch(w) ==
    /\ pc[w] = "get_match"
    /\ metrics' = Inc(metrics, GetArmCounter(res[w]))
    /\ IF res[w] \in {"Found", "NotFound"}
       THEN /\ pc' = [pc EXCEPT ![w] =
                         IF res[w] = "Found" THEN "get_found" ELSE "get_notfound"]
            /\ UNCHANGED <<lat, res, result>>
       ELSE /\ pc' = [pc EXCEPT ![w] = "request_ok"]
            /\ result' = [result EXCEPT ![w] = GetArmResult(res[w])]
            /\ res' = [res EXCEPT ![w] = "none"]
            /\ lat' = [lat EXCEPT ![w] = 0]
    /\ UNCHANGED <<chan, item, call, dispatched, abandoned>>
    /\ nresp' = Tally(w)
    /\ UNCHANGED boot

\* GetResponse::Found: RESPONSE_HIT.increment();
StoreGetFound(w) ==
    /\ pc[w] = "get_found"
    /\ metrics' = Inc(metrics, "RESPONSE_HIT")
    /\ pc' = [pc EXCEPT ![w] = "get_key_hit"]
    /\ UNCHANGED <<chan, item, held, result, dispatched, abandoned>>
    /\ nresp' = Tally(w)
    /\ UNCHANGED boot

\* GetResponse::Found: GET_KEY_HIT.increment(); Ok(())
StoreGetKeyHit(w) ==
    /\ pc[w] = "get_key_hit"
    /\ metrics' = Inc(metrics, "GET_KEY_HIT")
    /\ result' = [result EXCEPT ![w] = GetArmResult(res[w])]
    /\ res' = [res EXCEPT ![w] = "none"]
    /\ lat' = [lat EXCEPT ![w] = 0]
    /\ pc' = [pc EXCEPT ![w] = "request_ok"]
    /\ UNCHANGED <<chan, item, call, dispatched, abandoned>>
    /\ nresp' = Tally(w)
    /\ UNCHANGED boot

\* GetResponse::NotFound: RESPONSE_MISS.increment();
StoreGetNotFound(w) ==
    /\ pc[w] = "get_notfound"
    /\ metrics' = Inc(metrics, "RESPONSE_MISS")
    /\ pc' = [pc EXCEPT ![w] = "get_key_miss"]
    /\ UNCHANGED <<chan, item, held, result, dispatched, abandoned>>
    /\ nresp' = Tally(w)
    /\ UNCHANGED boot

\* A faulty variant of StoreGetKeyMiss: the NotFound arm counts a key hit.
StoreGetKeyMissAsHit(w) ==
    /\ pc[w] = "get_key_miss"
    /\ metrics' = Inc(metrics, "GET_KEY_HIT")
    /\ result' = [result EXCEPT ![w] = GetArmResult(res[w])]
    /\ res' = [res EXCEPT ![w] = "none"]
    /\ lat' = [lat EXCEPT ![w] = 0]
    /\ pc' = [pc EXCEPT ![w] = "request_ok"]
    /\ UNCHANGED <<chan, item, call, dispatched, abandoned>>
    /\ nresp' = Tally(w)
    /\ UNCHANGED boot

\* GetResponse::NotFound: GET_KEY_MISS.increment(); Ok(())
StoreGetKeyMiss(w) ==
    /\ pc[w] = "get_key_miss"
    /\ metrics' = Inc(metrics, "GET_KEY_MISS")
    /\ result' = [result EXCEPT ![w] = GetArmResult(res[w])]
    /\ res' = [res EXCEPT ![w] = "none"]
    /\ lat' = [lat EXCEPT ![w] = 0]
    /\ pc' = [pc EXCEPT ![w] = "request_ok"]
    /\ UNCHANGED <<chan, item, call, dispatched, abandoned>>
    /\ nresp' = Tally(w)
    /\ UNCHANGED boot

\* ------------------------------------------------- put and store_delete
\* record_result!(result, BASE) and record_result!(result, BASE, EXTRA): the
\* counter each arm increments and the value it returns.  On an
\* acknowledgement the put form counts the operation as stored.
RecordCounter(base, r) ==
    CASE r = "Ack" -> IF base = "SET" THEN "SET_STORED" ELSE "DELETE_OK"
      [] r = "Elapsed" -> IF base = "SET" THEN "SET_TIMEOUT" ELSE "DELETE_TIMEOUT"
      [] OTHER -> IF base = "SET" THEN "SET_EX" ELSE "DELETE_EX"

RecordResult(r) ==
    CASE r = "Ack" -> "Ok"
      [] r = "Elapsed" -> "Timeout"
      [] OTHER -> ResponseErrorFrom(r)

\* SET.increment(); then client.send_request(PutRequest) is issued inside
\* timeout(request_timeout, ..).
PutBegin(w) ==
    /\ pc[w] = "put"
    /\ metrics' = Inc(metrics, "SET")
    /\ \E resp \in AckResponses : call' = [call EXCEPT ![w] = resp]
    /\ pc' = [pc EXCEPT ![w] = "put_await"]
    /\ UNCHANGED <<chan, item, lat, res, result, dispatched, abandoned>>
    /\ nresp' = Tally(w)
    /\ UNCHANGED boot

\* let result = timeout(..).await; in put.
PutAwait(w) ==
    /\ pc[w] = "put_await"
    /\ \E l \in Latencies :
          /\ lat' = [lat EXCEPT ![w] = l]
          /\ \E r \in Timeout(RequestTimeout, l, call[w]) :
                res' = [res EXCEPT ![w] = r]
    /\ abandoned' = IF res'[w] = "Elapsed" THEN abandoned + 1 ELSE abandoned
    /\ call' = [call EXCEPT ![w] = "none"]
    /\ pc' = [pc EXCEPT ![w] = "put_record"]
    /\ UNCHANGED <<chan, item, result, dispatched, metrics>>
    /\ nresp' = Tally(w)
    /\ UNCHANGED boot

\* record_result!(result, SET, SET_STORED)
PutRecord(w) ==
    /\ pc[w] = "put_record"
    /\ metrics' = Inc(metrics, RecordCounter("SET", res[w]))
    /\ result' = [result EXCEPT ![w] = RecordResult(res[w])]
    /\ res' = [res EXCEPT ![w] = "none"]
    /\ lat' = [lat EXCEPT ![w] = 0]
    /\ pc' = [pc EXCEPT ![w] = "request_ok"]
    /\ UNCHANGED <<chan, item, call, dispatched, abandoned>>
    /\ nresp' = Tally(w)
    /\ UNCHANGED boot

\* DELETE.increment(); then client.delete(store_name, key) is issued inside
\* timeout(request_timeout, ..).
StoreDeleteBegin(w) ==
    /\ pc[w] = "store_delete"
    /\ metrics' = Inc(metrics, "DELETE")
    /\ \E resp \in AckResponses : call' = [call EXCEPT ![w] = resp]
    /\ pc' = [pc EXCEPT ![w] = "delete_await"]
    /\ UNCHANGED <<chan, item, lat, res, result, dispatched, abandoned>>
    /\ nresp' = Tally(w)
    /\ UNCHANGED boot

\* let result = timeout(..).await; in store_delete.
StoreDeleteAwait(w) ==
    /\ pc[w] = "delete_await"
    /\ \E l \in Latencies :
          /\ lat' = [lat EXCEPT ![w] = l]
          /\ \E r \in Timeout(RequestTimeout, l, call[w]) :
                res' = [res EXCEPT ![w] = r]
    /\ abandoned' = IF res'[w] = "Elapsed" THEN abandoned + 1 ELSE abandoned
    /\ call' = [call EXCEPT ![w] = "none"]
    /\ pc' = [pc EXCEPT ![w] = "delete_record"]
    /\ UNCHANGED <<chan, item, result, dispatched, metrics>>
    /\ nresp' = Tally(w)
    /\ UNCHANGED boot

\* record_result!(result, DELETE)
StoreDeleteRecord(w) ==
    /\ pc[w] = "delete_record"
    /\ metrics' = Inc(metrics, RecordCounter("DELETE", res[w]))
    /\ result' = [result EXCEPT ![w] = RecordResult(res[w])]
    /\ res' = [res EXCEPT ![w] = "none"]
    /\ lat' = [lat EXCEPT ![w] = 0]
    /\ pc' = [pc EXCEPT ![w] = "request_ok"]
    /\ UNCHANGED <<chan, item, call, dispatched, abandoned>>
    /\ nresp' = Tally(w)
    /\ UNCHANGED boot

\* ------------------------------------------------- task (after dispatch)
\* A faulty variant of CountRequestOk: the increment is missing.
CountRequestOkMissing(w) ==
    /\ pc[w] = "request_ok"
    /\ pc' = [pc EXCEPT ![w] = "response"]
    /\ UNCHANGED <<chan, item, held, result, dispatched, abandoned, metrics>>
    /\ nresp' = Tally(w)
    /\ UNCHANGED boot

\* REQUEST_OK.increment();
CountRequestOk(w) ==
    /\ pc[w] = "request_ok"
    /\ metrics' = Inc(metrics, "REQUEST_OK")
    /\ pc' = [pc EXCEPT ![w] = "response"]
    /\ UNCHANGED <<chan, item, held, result, dispatched, abandoned>>
    /\ nresp' = Tally(w)
    /\ UNCHANGED boot

\* A faulty variant of ResponseCounter: the rate-limited and backend-timeout
\* arms are missing and fall in with the exception arm.
ResponseCounterLumped(r) ==
    CASE r = "Ok" -> "RESPONSE_OK"
      [] r = "Timeout" -> "RESPONSE_TIMEOUT"
      [] OTHER -> "RESPONSE_EX"

\* The counter the arm of `match result` increments.
ResponseCounter(r) ==
    CASE r = "Ok" -> "RESPONSE_OK"
      [] r = "Exception" -> "RESPONSE_EX"
      [] r = "Timeout" -> "RESPONSE_TIMEOUT"
      [] r = "Ratelimited" -> "RESPONSE_RATELIMITED"
      [] r = "BackendTimeout" -> "RESPONSE_BACKEND_TIMEOUT"

\* A faulty variant of ResponseRecord: a rate-limited operation is counted as
\* an exception too.
ResponseRecordRatelimitedTwice(m, r) ==
    IF r = "Ratelimited"
    THEN Inc(Inc(m, "RESPONSE_RATELIMITED"), "RESPONSE_EX")
    ELSE Inc(m, ResponseCounter(r))

\* The counters after the increment of the arm of `match result`.
ResponseRecord(m, r) == Inc(m, ResponseCounter(r))

\* A faulty variant of Response: the latency is recorded after the match, for
\* every outcome.
ResponseSamplesEveryOutcome(w) ==
    /\ pc[w] = "response"
    /\ metrics' = ResponseRecord(metrics, result[w])
    /\ pc' = [pc EXCEPT ![w] = "latency"]
    /\ result' = [result EXCEPT ![w] = "none"]
    /\ UNCHANGED <<chan, item, held, dispatched, abandoned>>
    /\ nresp' = Tally(w)
    /\ UNCHANGED boot

\* A faulty variant of Response: an error outcome is counted and then
\* returned from task, which ends the worker.
ResponseStopOnError(w) ==
    /\ pc[w] = "response"
    /\ metrics' = ResponseRecord(metrics, result[w])
    /\ pc' = [pc EXCEPT ![w] = IF result[w] = "Ok" THEN "latency" ELSE "failed"]
    /\ result' = [result EXCEPT ![w] = "none"]
    /\ UNCHANGED <<chan, item, held, dispatched, abandoned>>
    /\ nresp' = Tally(w)
    /\ UNCHANGED boot

\* match result { Ok(_) => RESPONSE_OK.increment() .., Err(..) => .. }
Response(w) ==
    /\ pc[w] = "response"
    /\ metrics' = ResponseRecord(metrics, result[w])
    /\ pc' = [pc EXCEPT ![w] = IF result[w] = "Ok" THEN "latency" ELSE "loop"]
    /\ result' = [result EXCEPT ![w] = "none"]
    /\ UNCHANGED <<chan, item, held, dispatched, abandoned>>
    /\ nresp' = Tally(w)
    /\ UNCHANGED boot

\* Ok(_): let _ = RESPONSE_LATENCY.increment(latency);
Latency(w) ==
    /\ pc[w] = "latency"
    /\ metrics' = Inc(metrics, "RESPONSE_LATENCY")
    /\ pc' = [pc EXCEPT ![w] = "loop"]
    /\ UNCHANGED <<chan, item, held, result, dispatched, abandoned>>
    /\ nresp' = Tally(w)
    /\ UNCHANGED boot

\* ------------------------------------------------------------------ Next
StoreGet(w) ==
    \/ StoreGetBegin(w)
    \/ StoreGetAwait(w)
    \/ StoreGetMatch(w)
    \/ StoreGetFound(w)
    \/ StoreGetKeyHit(w)
    \/ StoreGetNotFound(w)
    \/ StoreGetKeyMiss(w)

Put(w) == PutBegin(w) \/ PutAwait(w) \/ PutRecord(w)

StoreDelete(w) ==
    StoreDeleteBegin(w) \/ StoreDeleteAwait(w) \/ StoreDeleteRecord(w)

Task(w) ==
    \/ CheckRunning(w)
    \/ Recv(w)
    \/ RecvClosed(w)
    \/ CountRequest(w)
    \/ Unsupported(w)
    \/ StoreGet(w)
    \/ Put(w)
    \/ StoreDelete(w)
    \/ CountRequestOk(w)
    \/ Response(w)
    \/ Latency(w)

Next ==
    \/ Produce
    \/ CloseQueue
    \/ Shutdown
    \/ AbandonedReturn
    \/ \E w \in Workers : Task(w)

Spec == Init /\ [][Next]_vars

\* The runtime polls every task that can make progress, and the timer of the
\* race always fires: each worker's next step is eventually taken.  Nothing
\* obliges the producers, the shutdown trigger or the backend to act.
InitLive == InitWith(MaxItemsLive)

FairSpec == InitLive /\ [][Next]_vars /\ \A w \in Workers : WF_vars(Task(w))

\* ---------------------------------------------------------------- claims
\* Worker w is between two iterations or has left the loop: it holds no
\* work item.
Idle(w) == pc[w] \in {"loop", "recv", "done", "failed"}

\* C1: when only Get operations have been dispatched and every one of them
\* has been processed (no worker holds a work item), the Get attempted
\* counter equals the sum of the Get outcome counters the code keeps
\* (GET_OK + GET_EX + GET_TIMEOUT) and equals the sum of the five outcome
\* kinds RESPONSE_OK + RESPONSE_EX + RESPONSE_TIMEOUT + RESPONSE_RATELIMITED
\* + RESPONSE_BACKEND_TIMEOUT: each processed Get is counted exactly once.
C1_GetAttemptedIsSumOfOutcomes ==
    ((\A w \in Workers : Idle(w)) /\ metrics["SET"] = 0 /\ metrics["DELETE"] = 0)
    => /\ metrics["GET"] =
            metrics["GET_OK"] + metrics["GET_EX"] + metrics["GET_TIMEOUT"]
       /\ metrics["GET"] = SumOver(metrics, ResponseCounters)

\* Two Gets have been processed, one rate limited by the backend and one
\* timed out by the dispatcher.
C1_Witness ==
    /\ \A w \in Workers : Idle(w)
    /\ metrics["GET"] = 2
    /\ metrics["RESPONSE_RATELIMITED"] = 1
    /\ metrics["RESPONSE_TIMEOUT"] = 1

\* The workers that have incremented GET_OK for a Get and not yet its hit or
\* miss counter.
BetweenOkAndHitMiss ==
    {w \in Workers :
        pc[w] \in {"get_found", "get_key_hit", "get_notfound", "get_key_miss"}}

\* C2 as stated: in every reachable state GET_KEY_HIT + GET_KEY_MISS equals
\* GET_OK.
C2_HitPlusMissEqualsOk ==
    metrics["GET_KEY_HIT"] + metrics["GET_KEY_MISS"] = metrics["GET_OK"]

\* C2 amended: GET_OK exceeds GET_KEY_HIT + GET_KEY_MISS by the number of
\* workers that are between the GET_OK increment and the hit or miss
\* increment of store_get; the two sides are equal whenever there is no such
\* worker, and hit + miss never exceeds ok.
C2_HitPlusMissTrailsOk ==
    metrics["GET_KEY_HIT"] + metrics["GET_KEY_MISS"]
        + Cardinality(BetweenOkAndHitMiss) = metrics["GET_OK"]

\* One Get has been counted as a hit in full while another worker has counted
\* its Get as ok and not yet as a miss.
C2_Witness ==
    /\ metrics["GET_OK"] = 2
    /\ metrics["GET_KEY_HIT"] = 1
    /\ metrics["GET_KEY_MISS"] = 0
    /\ \E w \in Workers : pc[w] = "get_key_miss"

\* C3: in every reachable state the outcome counters of an operation type sum
\* to at most its attempted counter, for get, put and delete, whether calls
\* are in flight or were abandoned after a timeout.
C3_OutcomesAtMostAttempted ==
    /\ metrics["GET_OK"] + metrics["GET_EX"] + metrics["GET_TIMEOUT"]
          <= metrics["GET"]
    /\ metrics["SET_STORED"] + metrics["SET_EX"] + metrics["SET_TIMEOUT"]
          <= metrics["SET"]
    /\ metrics["DELETE_OK"] + metrics["DELETE_EX"] + metrics["DELETE_TIMEOUT"]
          <= metrics["DELETE"]

\* One Get has timed out and its call is still abandoned on the connection
\* while a second Get is in flight: one outcome against two attempts.
C3_Witness ==
    /\ metrics["GET"] = 2
    /\ metrics["GET_TIMEOUT"] = 1
    /\ metrics["GET_OK"] + metrics["GET_EX"] = 0
    /\ abandoned = 1
    /\ \E w \in Workers : pc[w] = "get_await"

\* C4: a worker increments the five RESPONSE_* outcome counters at most once
\* in an iteration, and when it is back at the head of the loop after a Get,
\* Put or Delete it has incremented exactly one of them.
C4_ExactlyOneOutcome ==
    \A w \in Workers :
        /\ nresp[w] <= 1
        /\ (pc[w] = "loop" /\ dispatched[w]) => nresp[w] = 1
        /\ (pc[w] = "loop" /\ ~dispatched[w]) => nresp[w] = 0

\* A worker is back at the head of the loop after a Put that the backend
\* answered with its own timeout error.
C4_Witness ==
    \E w \in Workers :
        /\ pc[w] = "loop"
        /\ dispatched[w]
        /\ metrics["SET"] = 1
        /\ nresp[w] = 1
        /\ metrics["RESPONSE_BACKEND_TIMEOUT"] = 1
        /\ SumOver(metrics, ResponseCounters) = 1

\* The backend errors that signal rate limiting and a backend-side timeout.
SpecialErrors == {"LimitExceededError", "TimeoutError"}

\* C5 as stated: the steps in which a worker counts a Get that failed with a
\* rate-limited or backend-timeout error increment no exception counter:
\* store_get leaves GET_EX alone and task leaves RESPONSE_EX alone.
C5_SpecialErrorsNotCountedAsException ==
    [][\A w \in Workers :
          /\ (pc[w] = "get_match" /\ res[w] \in SpecialErrors /\ pc'[w] # pc[w])
             => metrics'["GET_EX"] = metrics["GET_EX"]
          /\ ( /\ pc[w] = "response"
               /\ result[w] \in {"Ratelimited", "BackendTimeout"}
               /\ pc'[w] # pc[w] )
             => metrics'["RESPONSE_EX"] = metrics["RESPONSE_EX"]
      ]_vars

\* C5 amended: store_get counts a Get that failed with a rate-limited or
\* backend-timeout error in GET_EX, like every backend error, and in no other
\* counter; task counts an operation that returned Ratelimited or
\* BackendTimeout in RESPONSE_RATELIMITED or RESPONSE_BACKEND_TIMEOUT only,
\* and not in RESPONSE_EX.
C5_SpecialErrorsCountedApartInResponse ==
    [][\A w \in Workers :
          /\ (pc[w] = "get_match" /\ res[w] \in SpecialErrors /\ pc'[w] # pc[w])
             => metrics' = [metrics EXCEPT !["GET_EX"] = @ + 1]
          /\ (pc[w] = "response" /\ result[w] = "Ratelimited" /\ pc'[w] # pc[w])
             => metrics' = [metrics EXCEPT !["RESPONSE_RATELIMITED"] = @ + 1]
          /\ (pc[w] = "response" /\ result[w] = "BackendTimeout" /\ pc'[w] # pc[w])
             => metrics' = [metrics EXCEPT !["RESPONSE_BACKEND_TIMEOUT"] = @ + 1]
      ]_vars

\* A rate-limited Get and a Get that met the backend's own timeout have been
\* processed: both are in GET_EX, neither is in RESPONSE_EX.
C5_Witness ==
    /\ metrics["GET"] = 2
    /\ metrics["GET_EX"] = 2
    /\ metrics["RESPONSE_RATELIMITED"] = 1
    /\ metrics["RESPONSE_BACKEND_TIMEOUT"] = 1
    /\ metrics["RESPONSE_EX"] = 0
    /\ \A w \in Workers : Idle(w)

\* The outcome kind of a raced result: the backend's success, the backend's
\* error in its own category, or the dispatcher's timeout.
OutcomeOf(x) ==
    CASE x \in {"Found", "NotFound", "Ack"} -> "Ok"
      [] x = "Elapsed" -> "Timeout"
      [] x = "LimitExceededError" -> "Ratelimited"
      [] x = "TimeoutError" -> "BackendTimeout"
      [] x = "UnknownError" -> "Exception"

\* C6 as stated: for get, put and delete alike, a call that took L resolves
\* to the backend's own response when L < request_timeout and to the timeout
\* when L >= request_timeout, and the dispatch function returns the outcome
\* of what the call resolved to.
C6_TimedDispatch ==
    [][\A w \in Workers :
          /\ ( /\ pc[w] \in {"get_await", "put_await", "delete_await"}
               /\ pc'[w] # pc[w] )
             => res'[w] = IF lat'[w] < RequestTimeout THEN call[w] ELSE "Elapsed"
          /\ (result[w] = "none" /\ result'[w] # "none")
             => result'[w] = OutcomeOf(res[w])
      ]_vars

\* C6 amended: for get, put and delete alike, a call that took L resolves to
\* the backend's own response when L < request_timeout; when
\* L >= request_timeout it resolves to the timeout or, the answer being there
\* when the task is polled, to the backend's own response; the timeout is
\* never the outcome of a call with L < request_timeout, and the dispatch
\* function returns the outcome of what the call resolved to.
C6_TimedDispatchPollsCallFirst ==
    [][\A w \in Workers :
          /\ ( /\ pc[w] \in {"get_await", "put_await", "delete_await"}
               /\ pc'[w] # pc[w] )
             => /\ res'[w] \in {call[w], "Elapsed"}
                /\ lat'[w] < RequestTimeout => res'[w] = call[w]
                /\ res'[w] = "Elapsed" => lat'[w] >= RequestTimeout
          /\ (result[w] = "none" /\ result'[w] # "none")
             => result'[w] = OutcomeOf(res[w])
      ]_vars

\* One worker's call took exactly the timeout and resolved to Elapsed while
\* another's took as long and resolved to the backend's Found.
C6_Witness ==
    \E v, w \in Workers :
        /\ pc[v] \in {"get_match", "put_record", "delete_record"}
        /\ lat[v] = RequestTimeout
        /\ res[v] = "Elapsed"
        /\ pc[w] = "get_match"
        /\ lat[w] = RequestTimeout
        /\ res[w] = "Found"

\* C7: the step in which an abandoned backend call finishes changes no
\* counter, no histogram sample and nothing a worker holds, and no counter
\* ever decreases: an operation recorded as Timeout stays recorded as Timeout.
C7_AbandonedResultChangesNothing ==
    [][/\ (abandoned' < abandoned)
          => (metrics' = metrics /\ result' = result /\ res' = res /\ pc' = pc)
       /\ \A k \in CounterNames : metrics'[k] >= metrics[k]
      ]_vars

\* Two operations were recorded as Timeout and both abandoned calls have
\* finished since.
C7_Witness ==
    /\ metrics["RESPONSE_TIMEOUT"] = 2
    /\ metrics["GET_TIMEOUT"] + metrics["SET_TIMEOUT"] + metrics["DELETE_TIMEOUT"] = 2
    /\ abandoned = 0
    /\ \A w \in Workers : Idle(w)

\* C8 as stated: every receive from the queue completes while RUNNING is
\* still true.
C8_NoReceiveAfterFlip ==
    [][(\E w \in Workers : pc[w] = "recv" /\ pc'[w] = "request") => RUNNING]_vars

Stopped(w) == pc[w] \in {"done", "failed"}

\* C9 as stated: once RUNNING is false every worker eventually reaches
\* Stopped.
C9_ShutdownStopsEveryWorker ==
    (~RUNNING) ~> (\A w \in Workers : Stopped(w))

\* C10 as stated: once the queue is closed every worker eventually exits with
\* the ChannelClosed error.
C10_CloseExitsWithChannelClosed ==
    closed ~> (\A w \in Workers : pc[w] = "failed")

\* C10 amended: once the queue is closed every worker eventually exits, none
\* stays blocked on the receive; a worker exits with ChannelClosed only from
\* a closed and drained queue, and exits with Ok(()) only after RUNNING has
\* become false, so that while RUNNING is true ChannelClosed is the only exit.
C10_CloseExits ==
    /\ closed ~> (\A w \in Workers : Stopped(w))
    /\ [](\A w \in Workers : pc[w] = "done" => ~RUNNING)
    /\ [](\A w \in Workers : pc[w] = "failed" => (closed /\ queue = <<>>))

\* The queue was closed with RUNNING still true, the item left in it was
\* received and processed, and every worker has exited with ChannelClosed.
C10_Witness ==
    /\ closed
    /\ RUNNING
    /\ \A w \in Workers : pc[w] = "failed"
    /\ metrics["REQUEST_OK"] = 1

\* The tasks launch_tasks has spawned, and those it spawned with client c.
Spawned == {t \in Tasks : pc[t] # "unspawned"}
SpawnedOn(c) == {t \in Spawned : args[t].client = c}

\* C11: when launch_tasks has returned, every connection having succeeded, it
\* has made exactly poolsize connect calls (CONNECT and CONNECT_CURR are both
\* poolsize) and spawned exactly poolsize x concurrency tasks, concurrency of
\* them with each client, all with a clone of the one work_receiver.
C11_LaunchSpawnsPoolTimesConcurrency ==
    lpc = "returned"
    => /\ metrics["CONNECT"] = config.poolsize
       /\ metrics["CONNECT_CURR"] = config.poolsize
       /\ Cardinality(Spawned) = config.poolsize * config.concurrency
       /\ \A c \in 1..config.poolsize :
             Cardinality(SpawnedOn(c)) = config.concurrency
       /\ \A t \in Spawned :
             /\ args[t].client \in 1..config.poolsize
             /\ args[t].work_receiver = "work_receiver"

\* A launch with poolsize 2 and concurrency 3 has returned: 2 connect calls
\* and 6 tasks.
C11_Witness ==
    /\ lpc = "returned"
    /\ config.poolsize = 2
    /\ config.concurrency = 3
    /\ metrics["CONNECT"] = 2
    /\ Cardinality(Spawned) = 6


\* Worker w is handling a request of a kind other than Get, Put and Delete:
\* it holds the item it received, or is in the arm that skips it.
HandlingUnsupported(w) ==
    \/ pc[w] = "request" /\ item[w] = "Other"
    \/ pc[w] = "unsupported"

\* C12 as stated: the steps of a worker handling an unsupported request change
\* no counter but REQUEST_UNSUPPORTED.
C12_UnsupportedCountsOnlyUnsupported ==
    [][\A w \in Workers :
          (HandlingUnsupported(w) /\ pc'[w] # pc[w])
          => \A k \in CounterNames \ {"REQUEST_UNSUPPORTED"} :
                metrics'[k] = metrics[k]
      ]_vars

\* C12 amended: a worker that received an unsupported request increments
\* REQUEST, as for every work item, then REQUEST_UNSUPPORTED, and is back at
\* the head of the loop; it issues no backend call and changes no other
\* counter and not the latency histogram.
C12_UnsupportedCountsRequestAndUnsupported ==
    [][\A w \in Workers :
          /\ (pc[w] = "request" /\ item[w] = "Other" /\ pc'[w] # pc[w])
             => /\ metrics' = [metrics EXCEPT !["REQUEST"] = @ + 1]
                /\ pc'[w] = "unsupported"
                /\ call' = call /\ abandoned' = abandoned
          /\ (pc[w] = "unsupported" /\ pc'[w] # pc[w])
             => /\ metrics' = [metrics EXCEPT !["REQUEST_UNSUPPORTED"] = @ + 1]
                /\ pc'[w] = "loop"
                /\ call' = call /\ abandoned' = abandoned
      ]_vars

\* The one work item sent was an unsupported request and has been handled:
\* REQUEST and REQUEST_UNSUPPORTED are 1 and every counter of the loop is 0.
C12_Witness ==
    /\ sent["Other"] = 1
    /\ queue = <<>>
    /\ \A w \in Workers : Idle(w)
    /\ metrics["REQUEST"] = 1
    /\ metrics["REQUEST_UNSUPPORTED"] = 1
    /\ \A k \in CounterNames \ {"REQUEST", "REQUEST_UNSUPPORTED",
                                "CONNECT", "CONNECT_CURR"} : metrics[k] = 0

\* C13: a Get whose timed call resolved to the answer NotFound increments
\* GET_OK, then RESPONSE_MISS, then GET_KEY_MISS, each by exactly 1, never
\* GET_KEY_HIT, and returns Ok; a Get whose call resolved to Found increments
\* GET_OK, RESPONSE_HIT and GET_KEY_HIT, never GET_KEY_MISS, and returns Ok;
\* the Ok is counted as RESPONSE_OK.
C13_FoundAndNotFoundAreSuccess ==
    [][\A w \in Workers :
          /\ (pc[w] = "get_match" /\ res[w] = "NotFound" /\ pc'[w] # pc[w])
             => /\ metrics' = [metrics EXCEPT !["GET_OK"] = @ + 1]
                /\ pc'[w] = "get_notfound"
          /\ (pc[w] = "get_notfound" /\ pc'[w] # pc[w])
             => /\ metrics' = [metrics EXCEPT !["RESPONSE_MISS"] = @ + 1]
                /\ pc'[w] = "get_key_miss"
          /\ (pc[w] = "get_key_miss" /\ pc'[w] # pc[w])
             => /\ metrics' = [metrics EXCEPT !["GET_KEY_MISS"] = @ + 1]
                /\ pc'[w] = "request_ok"
                /\ result'[w] = "Ok"
          /\ (pc[w] = "get_match" /\ res[w] = "Found" /\ pc'[w] # pc[w])
             => /\ metrics' = [metrics EXCEPT !["GET_OK"] = @ + 1]
                /\ pc'[w] = "get_found"
          /\ (pc[w] = "get_found" /\ pc'[w] # pc[w])
             => /\ metrics' = [metrics EXCEPT !["RESPONSE_HIT"] = @ + 1]
                /\ pc'[w] = "get_key_hit"
          /\ (pc[w] = "get_key_hit" /\ pc'[w] # pc[w])
             => /\ metrics' = [metrics EXCEPT !["GET_KEY_HIT"] = @ + 1]
                /\ pc'[w] = "request_ok"
                /\ result'[w] = "Ok"
          /\ (pc[w] = "response" /\ result[w] = "Ok" /\ pc'[w] # pc[w])
             => metrics' = [metrics EXCEPT !["RESPONSE_OK"] = @ + 1]
      ]_vars

\* One Get was sent, the backend answered NotFound, and the worker is done
\* with it: get_ok 1, get_key_miss 1, get_key_hit 0, one success.
C13_Witness ==
    /\ \A w \in Workers : Idle(w)
    /\ metrics["GET"] = 1
    /\ metrics["GET_OK"] = 1
    /\ metrics["GET_KEY_MISS"] = 1
    /\ metrics["GET_KEY_HIT"] = 0
    /\ metrics["RESPONSE_MISS"] = 1
    /\ metrics["RESPONSE_OK"] = 1

\* The outcomes of a request that are failures.
Failures == {"Exception", "Timeout", "Ratelimited", "BackendTimeout"}

\* C14: a worker that records a failed request goes back to the head of the
\* loop, from where it goes on to the receive when RUNNING is true; a worker
\* leaves the loop only from the head of the loop with RUNNING false, or from
\* the receive with the channel closed and empty.
C14_FailureNeverStopsWorker ==
    [][\A w \in Workers :
          /\ (pc[w] = "response" /\ result[w] \in Failures /\ pc'[w] # pc[w])
             => pc'[w] = "loop"
          /\ (pc[w] = "loop" /\ RUNNING /\ pc'[w] # pc[w])
             => pc'[w] = "recv"
          /\ (~Stopped(w) /\ pc'[w] \in {"done", "failed"})
             => \/ pc[w] = "loop" /\ ~RUNNING /\ pc'[w] = "done"
                \/ pc[w] = "recv" /\ closed /\ queue = <<>> /\ pc'[w] = "failed"
      ]_vars

\* Two requests failed, one on the dispatcher's timeout and one rate limited,
\* and with RUNNING true and the channel open every worker is at the receive
\* again.
C14_Witness ==
    /\ RUNNING
    /\ ~closed
    /\ metrics["RESPONSE_TIMEOUT"] = 1
    /\ metrics["RESPONSE_RATELIMITED"] = 1
    /\ \A w \in Workers : pc[w] = "recv"

\* How many items of kind k are in the channel, and how many workers hold a
\* received item of kind k that they have not counted yet.
Queued(k) == Cardinality({i \in 1..Len(queue) : queue[i] = k})
Holding(k) == Cardinality({w \in Workers : pc[w] = "request" /\ item[w] = k})

\* How many workers are at pc position p.
At(p) == Cardinality({w \in Workers : pc[w] = p})

\* C15: every work item sent is in the channel, or held by one worker, or
\* was counted once in REQUEST: none is received twice.  The Gets, Puts and
\* Deletes sent are each still queued, held by one worker, about to be
\* issued, or counted once as issued, so the backend calls issued never
\* exceed the supported items sent.
C15_EachItemConsumedOnce ==
    /\ SumOver(sent, WorkItems)
          = Len(queue) + At("request") + metrics["REQUEST"]
    /\ sent["Get"]
          = Queued("Get") + Holding("Get") + At("store_get") + metrics["GET"]
    /\ sent["Put"]
          = Queued("Put") + Holding("Put") + At("put") + metrics["SET"]
    /\ sent["Delete"]
          = Queued("Delete") + Holding("Delete") + At("store_delete")
              + metrics["DELETE"]
    /\ metrics["GET"] + metrics["SET"] + metrics["DELETE"]
          <= sent["Get"] + sent["Put"] + sent["Delete"]

\* Two Gets were sent and two workers received concurrently: each has one of
\* them in flight.
C15_Witness ==
    /\ sent["Get"] = 2
    /\ queue = <<>>
    /\ \A w \in Workers : pc[w] = "get_await"
    /\ metrics["REQUEST"] = 2
    /\ metrics["GET"] = 2

\* C16: when the construction of a connection fails in launch_tasks, the
\* process has exited at that point: CONNECT and CONNECT_CURR count the
\* connections built before the failed one, the tasks spawned are those of
\* these connections and none is on the failed one, and the poolsize loop is
\* not over; from then on nothing in the process changes, so no later
\* connection is attempted.
C16_ConnectFailureExitsProcess ==
    /\ [](lpc = "exit"
          => /\ exited
             /\ pool < config.poolsize
             /\ metrics["CONNECT"] = pool
             /\ metrics["CONNECT_CURR"] = pool
             /\ Cardinality(Spawned) = pool * config.concurrency
             /\ \A t \in Spawned : args[t].client \in 1..pool)
    /\ [][(lpc = "exit" \/ exited) => UNCHANGED vars]_vars

\* The first of two connections was built and its three tasks spawned, one
\* of them already at its loop; building the second client failed and the
\* process exited with CONNECT at 1.
C16_Witness ==
    /\ lpc = "exit"
    /\ apiKey = "valid"
    /\ config.poolsize = 2
    /\ pool = 1
    /\ metrics["CONNECT"] = 1
    /\ Cardinality(Spawned) = 3
    /\ \E t \in Spawned : pc[t] = "loop"
    /\ \E t \in Spawned : pc[t] = "start"

\* C17 as stated: the step in which a worker handles a received Reconnect
\* changes no counter.
C17_ReconnectChangesNoCounter ==
    [][\A w \in Workers :
          (pc[w] = "request" /\ item[w] = "Reconnect" /\ pc'[w] # pc[w])
          => metrics' = metrics
      ]_vars

\* C17 amended: a worker that received a Reconnect increments REQUEST, as for
\* every work item, and nothing else: no other counter and not the histogram
\* changes, no backend call is issued, and the worker is back at the head of
\* the loop.
C17_ReconnectCountsRequestOnly ==
    [][\A w \in Workers :
          (pc[w] = "request" /\ item[w] = "Reconnect" /\ pc'[w] # pc[w])
          => /\ metrics' = [metrics EXCEPT !["REQUEST"] = @ + 1]
             /\ pc'[w] = "loop"
             /\ ~dispatched'[w]
             /\ call' = call /\ abandoned' = abandoned
      ]_vars

\* The one work item sent was a Reconnect and a worker has handled it:
\* REQUEST is 1 and every other counter of the loop is 0.
C17_Witness ==
    /\ sent["Reconnect"] = 1
    /\ queue = <<>>
    /\ \A w \in Workers : Idle(w)
    /\ metrics["REQUEST"] = 1
    /\ \A k \in CounterNames \ {"REQUEST", "CONNECT", "CONNECT_CURR"} :
          metrics[k] = 0

\* C18 as stated: the tasks spawned with the same client that have reached
\* their loop all hold the same salted store name, which is the store every
\* get, put and delete of theirs addresses.
C18_OneStoreNamePerConnection ==
    \A t, u \in Spawned :
        (pc[t] = "loop" /\ pc[u] = "loop" /\ args[t].client = args[u].client)
        => store_name[t] = store_name[u]

\* C19: the samples in RESPONSE_LATENCY are the operations counted in
\* RESPONSE_OK, less those whose worker is between the two increments: never
\* more than RESPONSE_OK, and one per success once the worker is through.  A
\* sample is added only by the step that follows the RESPONSE_OK increment
\* of the same worker, and an operation recorded as a failure takes the
\* worker back to the head of the loop without a sample.
C19_LatencyOnlyOnSuccess ==
    /\ [](metrics["RESPONSE_LATENCY"] + At("latency") = metrics["RESPONSE_OK"])
    /\ [][\A w \in Workers :
             /\ (pc[w] = "response" /\ pc'[w] # pc[w])
                => /\ metrics'["RESPONSE_LATENCY"] = metrics["RESPONSE_LATENCY"]
                   /\ pc'[w] = IF result[w] = "Ok" THEN "latency" ELSE "loop"
             /\ (pc[w] = "latency" /\ pc'[w] # pc[w])
                => /\ metrics' = [metrics EXCEPT !["RESPONSE_LATENCY"] = @ + 1]
                   /\ pc'[w] = "loop"
         ]_vars
    /\ [][metrics'["RESPONSE_LATENCY"] # metrics["RESPONSE_LATENCY"]
          => \E w \in Workers : pc[w] = "latency" /\ pc'[w] = "loop"]_vars

\* One operation succeeded and one timed out, both workers are through: one
\* sample.
C19_Witness ==
    /\ \A w \in Workers : Idle(w)
    /\ metrics["RESPONSE_OK"] = 1
    /\ metrics["RESPONSE_TIMEOUT"] = 1
    /\ metrics["RESPONSE_LATENCY"] = 1

\* The Reconnect items the workers have received and counted.
ReconnectsReceived ==
    sent["Reconnect"] - Queued("Reconnect") - Holding("Reconnect")

\* The operations whose dispatch function has counted an outcome.
Resolved ==
    metrics["GET_OK"] + metrics["GET_EX"] + metrics["GET_TIMEOUT"]
    + metrics["SET_STORED"] + metrics["SET_EX"] + metrics["SET_TIMEOUT"]
    + metrics["DELETE_OK"] + metrics["DELETE_EX"] + metrics["DELETE_TIMEOUT"]

\* C20: REQUEST counts every work item received, of any kind, once the
\* worker is past the increment, and REQUEST_OK never exceeds the operations
\* resolved; in every reachable state the five RESPONSE_* counters sum to at
\* most REQUEST_OK, which is at most REQUEST; and when no worker is inside an
\* iteration REQUEST = REQUEST_OK + REQUEST_UNSUPPORTED + the Reconnects
\* received and REQUEST_OK is the sum of the five RESPONSE_* counters.
C20_RequestAccounting ==
    /\ metrics["REQUEST"] + At("request") + Len(queue) = SumOver(sent, WorkItems)
    /\ metrics["REQUEST_OK"] <= Resolved
    /\ SumOver(metrics, ResponseCounters) <= metrics["REQUEST_OK"]
    /\ metrics["REQUEST_OK"] <= metrics["REQUEST"]
    /\ (\A w \in Workers : Idle(w))
       => /\ metrics["REQUEST"] = metrics["REQUEST_OK"]
                                    + metrics["REQUEST_UNSUPPORTED"]
                                    + ReconnectsReceived
          /\ metrics["REQUEST_OK"] = SumOver(metrics, ResponseCounters)

\* A Reconnect and a Delete were received and handled, and no worker is
\* inside an iteration: REQUEST is 2, REQUEST_OK is 1.
C20_Witness ==
    /\ \A w \in Workers : Idle(w)
    /\ ReconnectsReceived = 1
    /\ metrics["DELETE"] = 1
    /\ metrics["REQUEST"] = 2
    /\ metrics["REQUEST_OK"] = 1
    /\ SumOver(metrics, ResponseCounters) = 1

====
